---- MODULE Spec2Model ----
(***************************************************************************)
(* Model of bot.py: one run of the report-download automation.             *)
(*                                                                         *)
(* Strings read from the process environment are sequences of one-letter   *)
(* strings, so that strip() and lower() are computed, not assumed.  The    *)
(* browser, the portal and the SMTP relay are the environment: every call  *)
(* into them draws its outcome (done, timeout, other error) with \E.       *)
(***************************************************************************)
EXTENDS Integers, Sequences, FiniteSets, TLC

VARIABLES
    environ,      \* os.environ: variable name -> raw value (UNSET when absent)
    nowUtc,       \* the instant of module load, minutes since 1970-01-01T00:00Z
    hostOffset,   \* the host's local UTC offset, minutes
    pc,           \* position of the single control thread
    exitCode,     \* process exit status, -1 while running
    error,        \* the exception that ended the run, "none" otherwise
    session,      \* browser + context: "none", "open", "closed"
    pageOpened,   \* page.goto(LOGIN_URL) was issued
    loginIdx,     \* index of the login strategy tried next, 0 once the form is left
    userFilledBy, \* strategy whose text the username field of the form holds, 0 if none
    passFilledBy, \* strategy whose text the password field of the form holds, 0 if none
    filled,       \* run_automation's local `filled`
    submitClicks, \* clicks on a login/submit button that landed
    navClicks,    \* clicks of click_reports_nav that landed
    ctxIdx,       \* index in contexts(page) of the context tried next
    nctx,         \* len(contexts(page)) once the list is built, 0 before
    picked_ctx,   \* run_automation's local `picked_ctx`, 0 for None
    steps,        \* the numbers of the steps started so far, in the order of starting
    trace,        \* record of the step executed last
    executeClicks,\* clicks of click_execute that landed
    polls,        \* find_download_button calls of the polling loop, 0 outside it
    btn,          \* the candidate find_download_button returned, 0 for None
    downloads,    \* downloads started by btn.click()
    saved,        \* sequence of paths written by download.save_as
    file_path,    \* run_automation's local `file_path`, NoPath before it is bound
    emails        \* sequence of messages handed to server.send_message

vars == <<environ, nowUtc, hostOffset, pc, exitCode, error, session, pageOpened,
          loginIdx, userFilledBy, passFilledBy, filled, submitClicks, navClicks,
          ctxIdx, nctx, picked_ctx, steps, trace, executeClicks, polls, btn, downloads,
          saved, file_path, emails>>

-----------------------------------------------------------------------------
(* Bounds of the explored input space                                      *)

\* at most this many of the seven notification variables deviate from the
\* fully configured baseline
MaxOddFields == 1
\* at most this many child frames hang below the page's main frame
MaxFrames == 0

-----------------------------------------------------------------------------
(* Python string operations                                                *)

UNSET == <<"<unset>">>

IsSpace(c) == c = " "

RECURSIVE LStrip(_)
LStrip(s) == IF s # <<>> /\ IsSpace(Head(s)) THEN LStrip(Tail(s)) ELSE s

RECURSIVE RStrip(_)
RStrip(s) ==
    IF s # <<>> /\ IsSpace(s[Len(s)]) THEN RStrip(SubSeq(s, 1, Len(s) - 1)) ELSE s

\* str.strip()
Strip(s) == RStrip(LStrip(s))

LowerChar(c) ==
    CASE c = "T" -> "t"
      [] c = "R" -> "r"
      [] c = "U" -> "u"
      [] c = "E" -> "e"
      [] c = "F" -> "f"
      [] c = "A" -> "a"
      [] c = "L" -> "l"
      [] c = "S" -> "s"
      [] OTHER   -> c

\* str.lower()
Lower(s) == [k \in 1..Len(s) |-> LowerChar(s[k])]

Digits == {"0", "1", "2", "3", "4", "5", "6", "7", "8", "9"}

\* int(s) accepts s: a non-empty run of digits (after the strip the code applies)
IsInt(s) == s # <<>> /\ \A k \in 1..Len(s) : s[k] \in Digits

\* os.getenv(name, default)
getenv(name, default) == IF environ[name] = UNSET THEN default ELSE environ[name]

\* os.getenv(name) or default: None and "" both give the default
getenv_or(name, default) ==
    IF environ[name] = UNSET \/ environ[name] = <<>> THEN default ELSE environ[name]

-----------------------------------------------------------------------------
(* Module-level values, computed once at import                            *)

USERNAME == getenv("WEBSITE_USER", <<>>)
PASSWORD == getenv("WEBSITE_PASS", <<>>)

DefaultUrl == <<"h", "t", "t", "p", "s">>
LOGIN_URL == getenv_or("LOGIN_URL", DefaultUrl)

\* str.startswith("http")
StartsWithHttp(s) == Len(s) >= 4 /\ SubSeq(s, 1, 4) = <<"h", "t", "t", "p">>

ENABLE_EMAIL == Lower(Strip(getenv("ENABLE_EMAIL", <<"f", "a", "l", "s", "e">>))) = <<"t", "r", "u", "e">>
FROM_EMAIL == Strip(getenv_or("FROM_EMAIL", <<>>))
TO_EMAIL == Strip(getenv_or("TO_EMAIL", <<>>))
SMTP_SERVER == Strip(getenv_or("SMTP_SERVER", <<>>))
SMTP_USER == Strip(getenv_or("SMTP_USER", <<>>))
SMTP_PASS == Strip(getenv_or("SMTP_PASS", <<>>))

DefaultPort == <<"5", "8", "7">>
\* the text handed to int() on line 33
SmtpPortText ==
    LET s == Strip(getenv_or("SMTP_PORT", DefaultPort))
    IN  IF s = <<>> THEN DefaultPort ELSE s
\* str(SMTP_PORT): the decimal text of the parsed port (no leading zeros)
RECURSIVE DropZeros(_)
DropZeros(s) == IF Len(s) > 1 /\ Head(s) = "0" THEN DropZeros(Tail(s)) ELSE s
SMTP_PORT == DropZeros(SmtpPortText)

\* email_config_ok(): the six values it requires, in the order of `req`
EmailReq == <<FROM_EMAIL, TO_EMAIL, SMTP_SERVER, SMTP_PORT, SMTP_USER, SMTP_PASS>>

\* variant: `req` lacks its last entry, SMTP_PASS
email_config_ok_shortReq ==
    IF ~ENABLE_EMAIL THEN FALSE
    ELSE IF \E k \in 1..(Len(EmailReq) - 1) : EmailReq[k] = <<>> THEN FALSE
    ELSE TRUE

email_config_ok ==
    IF ~ENABLE_EMAIL THEN FALSE
    ELSE IF \E k \in 1..Len(EmailReq) : EmailReq[k] = <<>> THEN FALSE
    ELSE TRUE

-----------------------------------------------------------------------------
(* datetime: proleptic Gregorian ordinals as date arithmetic computes them *)

\* timedelta(hours=5, minutes=30), in minutes
IST == 330

MinutesPerDay == 1440
\* date(1970, 1, 1).toordinal()
EpochOrdinal == 719163

is_leap(y) == y % 4 = 0 /\ (y % 100 # 0 \/ y % 400 = 0)

DAYS_IN_MONTH == <<31, 28, 31, 30, 31, 30, 31, 31, 30, 31, 30, 31>>

days_in_month(y, m) == IF m = 2 /\ is_leap(y) THEN 29 ELSE DAYS_IN_MONTH[m]

days_before_year(y) ==
    LET p == y - 1 IN p * 365 + (p \div 4) - (p \div 100) + (p \div 400)

RECURSIVE days_before_month(_, _)
days_before_month(y, m) ==
    IF m = 1 THEN 0 ELSE days_before_month(y, m - 1) + days_in_month(y, m - 1)

\* date.toordinal()
ymd2ord(d) == days_before_year(d[1]) + days_before_month(d[1], d[2]) + d[3]

RECURSIVE MonthOf(_, _, _)
\* the month holding the n-th (0-based) day of year y, searching from month m
MonthOf(y, m, n) ==
    IF n < days_before_month(y, m) + days_in_month(y, m) THEN m ELSE MonthOf(y, m + 1, n)

\* date.fromordinal(n): the 400/100/4/1-year cycle decomposition
ord2ymd(ord) ==
    LET n0   == ord - 1
        n400 == n0 \div 146097
        r400 == n0 % 146097
        n100 == r400 \div 36524
        r100 == r400 % 36524
        n4   == r100 \div 1461
        r4   == r100 % 1461
        n1   == r4 \div 365
        r1   == r4 % 365
        year == n400 * 400 + 1 + n100 * 100 + n4 * 4 + n1
    IN  IF n1 = 4 \/ n100 = 4 THEN <<year - 1, 12, 31>>
        ELSE LET m == MonthOf(year, 1, r1)
             IN  <<year, m, r1 - days_before_month(year, m) + 1>>

\* datetime.now(tz).date(): the civil date of the instant shifted by tz
DateAt(utcMinutes, tzOffset) ==
    ord2ymd(EpochOrdinal + ((utcMinutes + tzOffset) \div MinutesPerDay))

\* variant: datetime.now() without a timezone, the host's local date
TODAY_hostLocal == DateAt(nowUtc, hostOffset)

TODAY == DateAt(nowUtc, IST)

\* TODAY - timedelta(days=1)
YESTERDAY == ord2ymd(ymd2ord(TODAY) - 1)

\* a file name: a stem and the date its name carries (NoDate when it has none)
NoDate == <<0, 0, 0>>
DEFAULT_FILENAME == [stem |-> "cash_flows_", date |-> YESTERDAY, ext |-> ".xlsx"]
\* a name the portal suggests for the download; "" when it suggests none
SuggestedNames == {[stem |-> "", date |-> NoDate, ext |-> ""],
                   [stem |-> "StatementOfCashFlows", date |-> NoDate, ext |-> ".xlsx"]}
NoPath == [dir |-> "", name |-> [stem |-> "", date |-> NoDate, ext |-> ""]]
\* DOWNLOAD_DIR / name
InDownloadDir(name) == [dir |-> "downloads", name |-> name]

-----------------------------------------------------------------------------
(* Initial states: the process environment and the clock at module load    *)

Plain == <<"v">>

SmtpTextFields == {"FROM_EMAIL", "TO_EMAIL", "SMTP_SERVER", "SMTP_USER", "SMTP_PASS"}
NotifyNames == SmtpTextFields \cup {"ENABLE_EMAIL", "SMTP_PORT"}
EnvNames == NotifyNames \cup {"WEBSITE_USER", "WEBSITE_PASS", "LOGIN_URL"}

UserValues == {<<>>, <<"u">>}
PassValues == {UNSET, <<"p">>}
UrlValues == {UNSET, <<"f", "t", "p">>}

\* the fully configured notification: enabled, every field given (one of them
\* with blanks around it), default port
Baseline(n) ==
    CASE n = "ENABLE_EMAIL" -> <<"t", "r", "u", "e">>
      [] n = "SMTP_PORT" -> UNSET
      [] n = "TO_EMAIL" -> <<" ", "v", " ">>
      [] OTHER -> Plain

\* the values a notification variable takes when it deviates from the baseline
Odd(n) ==
    CASE n = "ENABLE_EMAIL" -> {UNSET, <<" ", "T", "R", "U", "E", " ">>, <<"1">>}
      [] n = "SMTP_PORT" -> {<<" ">>, <<"0", "2", "5">>, <<"x">>}
      [] OTHER -> {<<>>, <<" ">>}

OddAny == UNION {Odd(n) : n \in NotifyNames}

\* assignments of the notification variables with at most MaxOddFields deviations
NotifyChoices ==
    UNION {{[n \in NotifyNames |-> IF n \in D THEN g[n] ELSE Baseline(n)] :
               g \in {h \in [D -> OddAny] : \A n \in D : h[n] \in Odd(n)}} :
           D \in {S \in SUBSET NotifyNames : Cardinality(S) <= MaxOddFields}}

EnvChoices ==
    {[n \in EnvNames |->
        CASE n \in NotifyNames -> f[n]
          [] n = "WEBSITE_USER" -> c[1]
          [] n = "WEBSITE_PASS" -> c[2]
          [] OTHER -> c[3]] :
        f \in NotifyChoices, c \in UserValues \X PassValues \X UrlValues}

\* the environment of the clock study: credentials given, notification complete
ClockEnvChoices ==
    {e \in EnvChoices :
        /\ \A n \in NotifyNames : e[n] = Baseline(n)
        /\ e["WEBSITE_USER"] # <<>> /\ e["WEBSITE_PASS"] # UNSET
        /\ e["LOGIN_URL"] = UNSET}

\* 2025-08-25T06:00Z, minutes since the epoch
MainInstants == {(ymd2ord(<<2025, 8, 25>>) - EpochOrdinal) * MinutesPerDay + 360}

\* days whose eve crosses a month, a leap day, a year and a century
ClockDays == {<<2024, 2, 29>>, <<2024, 3, 1>>, <<2025, 3, 1>>, <<2024, 12, 31>>,
              <<2100, 3, 1>>, <<2025, 8, 25>>}
\* minutes of the day around the instant the UTC+5:30 date changes (18:30Z)
ClockMinutes == {0, 1109, 1110, 1439}
ClockInstants ==
    {(ymd2ord(d) - EpochOrdinal) * MinutesPerDay + m : d \in ClockDays, m \in ClockMinutes}
\* UTC-12:00, UTC, UTC+14:00
HostOffsets == {-720, 0, 840}

\* the record of a step: the step, the context it ran in, the strategies it ran
\* in order, how it ended, the argument it was given, what the page offered
Rec(step, ctx, tried, result, arg, env) ==
    [step |-> step, ctx |-> ctx, tried |-> tried, result |-> result, arg |-> arg,
     env |-> env]

NoTrace == Rec("none", 0, <<>>, "none", "", "")

InitRun ==
    /\ pc = "import"
    /\ exitCode = -1
    /\ error = "none"
    /\ session = "none"
    /\ pageOpened = FALSE
    /\ loginIdx = 1
    /\ userFilledBy = 0
    /\ passFilledBy = 0
    /\ filled = FALSE
    /\ submitClicks = 0
    /\ navClicks = 0
    /\ ctxIdx = 1
    /\ nctx = 0
    /\ picked_ctx = 0
    /\ steps = <<>>
    /\ trace = NoTrace
    /\ executeClicks = 0
    /\ polls = 0
    /\ btn = 0
    /\ downloads = 0
    /\ saved = <<>>
    /\ file_path = NoPath
    /\ emails = <<>>

Init ==
    /\ environ \in EnvChoices
    /\ nowUtc \in MainInstants
    /\ hostOffset = 0
    /\ InitRun

InitClock ==
    /\ environ \in ClockEnvChoices
    /\ nowUtc \in ClockInstants
    /\ hostOffset \in HostOffsets
    /\ InitRun

-----------------------------------------------------------------------------
(* The run                                                                 *)

\* the eight steps of the workflow
Authenticate == 1
Navigate == 2
SelectStep == 3
DateStep == 4
ExecuteStep == 5
PollStep == 6
DownloadStep == 7
NotifyStep == 8

\* `steps` once step k has been entered
Started(k) == IF steps # <<>> /\ steps[Len(steps)] = k THEN steps ELSE Append(steps, k)

\* variant: leaving the `async with` block leaves the browser running
Teardown_leak(s) == s

\* line 300: leaving `async with async_playwright()` stops the driver, which
\* takes a browser that is still open down with it
Teardown(s) == IF s = "open" THEN "closed" ELSE s

\* an exception leaves run_automation: `async with async_playwright()` tears the
\* browser down on the way out and asyncio.run re-raises, so the process exits 1
Raise(err) ==
    /\ pc' = "exited"
    /\ exitCode' = 1
    /\ error' = err
    /\ session' = Teardown(session)

\* lines 15-39: the module body; int() of a non-numeric SMTP_PORT raises ValueError
ModuleLoad ==
    /\ pc = "import"
    /\ IF IsInt(SmtpPortText)
       THEN /\ pc' = "start"
            /\ UNCHANGED <<exitCode, error, session>>
       ELSE Raise("ValueError")
    /\ UNCHANGED <<environ, nowUtc, hostOffset, pageOpened, loginIdx, userFilledBy,
                   passFilledBy, filled, submitClicks, navClicks, ctxIdx, nctx, picked_ctx,
                   steps, trace, executeClicks, polls, btn, downloads, saved, file_path,
                   emails>>

\* variant: the check asks for both credentials to be missing
CredentialsMissing_both(user, pass) == user = <<>> /\ pass = <<>>

\* line 295: `not USERNAME or not PASSWORD`
CredentialsMissing(user, pass) == user = <<>> \/ pass = <<>>

\* lines 295-303: the pre-flight checks, then the browser launch
Preflight ==
    /\ pc = "start"
    /\ \E launch \in {"ok", "fail"} :
         IF CredentialsMissing(USERNAME, PASSWORD)
         THEN Raise("MissingCredentials")
         ELSE IF ~StartsWithHttp(LOGIN_URL)
         THEN Raise("InvalidLoginUrl")
         ELSE IF launch = "fail"
         THEN Raise("LaunchError")
         ELSE /\ session' = "open"
              /\ pc' = "goto"
              /\ UNCHANGED <<exitCode, error>>
    /\ UNCHANGED <<environ, nowUtc, hostOffset, pageOpened, loginIdx, userFilledBy,
                   passFilledBy, filled, submitClicks, navClicks, ctxIdx, nctx, picked_ctx,
                   steps, trace, executeClicks, polls, btn, downloads, saved, file_path,
                   emails>>

\* line 306: page.goto(LOGIN_URL, wait_until="networkidle")
Goto ==
    /\ pc = "goto"
    /\ pageOpened' = TRUE
    /\ steps' = Started(Authenticate)
    /\ \E nav \in {"ok", "fail"} :
         /\ trace' = Rec("goto", 0, <<>>, nav, "", "")
         /\ IF nav = "ok"
            THEN /\ pc' = "login"
                 /\ UNCHANGED <<exitCode, error, session>>
            ELSE Raise("NavigationError")
    /\ UNCHANGED <<environ, nowUtc, hostOffset, loginIdx, userFilledBy, passFilledBy,
                   filled, submitClicks, navClicks, ctxIdx, nctx, picked_ctx,
                   executeClicks, polls, btn, downloads, saved, file_path, emails>>

\* line 307: the number of selector pairs in `creds`
LoginSelectors == 3

\* what one login strategy can do: fill both fields, or stop at the first or
\* the second fill with PWTimeoutError or with another playwright Error
FillOutcomes == {"ok", "user_timeout", "pass_timeout", "user_error", "pass_error"}

UserFillLanded(o) == o \in {"ok", "pass_timeout", "pass_error"}

\* lines 319 and 326: `except PWTimeoutError` catches the timeouts, nothing else
LoginCatches(o) == o \in {"user_timeout", "pass_timeout"}

\* variant: `filled = True` sits between the two fills
BothFilled_userOnly(o) == UserFillLanded(o)

\* lines 317 and 325: `filled = True` sits behind both fills
BothFilled(o) == o = "ok"

\* the strategies of the step `name` run so far, k being the latest
TriedSoFar(name, k) == Append(IF trace.step = name THEN trace.tried ELSE <<>>, k)

\* lines 313-320 and 322-327: one login strategy, selector pair or placeholders
LoginTry ==
    /\ \E o \in FillOutcomes :
         /\ userFilledBy' = IF UserFillLanded(o) THEN loginIdx ELSE userFilledBy
         /\ passFilledBy' = IF o = "ok" THEN loginIdx ELSE passFilledBy
         /\ trace' = Rec("login", 0, TriedSoFar("login", loginIdx), o, "", "")
         /\ IF BothFilled(o)
            THEN /\ filled' = TRUE
                 /\ UNCHANGED <<loginIdx, pc, exitCode, error, session>>
            ELSE IF LoginCatches(o)
            THEN /\ loginIdx' = loginIdx + 1
                 /\ UNCHANGED <<filled, pc, exitCode, error, session>>
            ELSE /\ Raise("FillError")
                 /\ UNCHANGED <<filled, loginIdx>>
    /\ UNCHANGED <<environ, nowUtc, hostOffset, pageOpened, submitClicks, navClicks,
                   ctxIdx, nctx, picked_ctx, steps, executeClicks, polls, btn, downloads,
                   saved, file_path, emails>>

\* lines 313-320: one iteration of `for u_sel, p_sel in creds`
LoginSelector ==
    /\ pc = "login"
    /\ ~filled
    /\ loginIdx <= LoginSelectors
    /\ LoginTry

\* lines 321-327: the placeholder heuristic, tried when no selector pair filled
LoginPlaceholder ==
    /\ pc = "login"
    /\ ~filled
    /\ loginIdx = LoginSelectors + 1
    /\ LoginTry

\* lines 328-335: give up when nothing was filled, otherwise click the login
\* button (falling back to button[type=submit] on a timeout) and await the load
LoginSubmit ==
    /\ pc = "login"
    /\ filled \/ loginIdx > LoginSelectors + 1
    /\ \E click \in {"ok", "timeout", "error"}, fallback \in {"ok", "fail"},
          load \in {"ok", "timeout"} :
         IF ~filled
         THEN /\ Raise("LoginFieldsNotFound")
              /\ UNCHANGED <<submitClicks, trace>>
         ELSE IF click = "error"
         THEN /\ Raise("ClickError")
              /\ trace' = Rec("submit", 0, <<1>>, "error", "", "")
              /\ UNCHANGED submitClicks
         ELSE IF click = "timeout" /\ fallback = "fail"
         THEN /\ Raise("ClickError")
              /\ trace' = Rec("submit", 0, <<1, 2>>, "error", "", "")
              /\ UNCHANGED submitClicks
         ELSE /\ submitClicks' = submitClicks + 1
              /\ trace' = Rec("submit", 0, IF click = "ok" THEN <<1>> ELSE <<1, 2>>,
                              load, "", "")
              /\ IF load = "ok"
                 THEN /\ pc' = "nav"
                      /\ UNCHANGED <<exitCode, error, session>>
                 ELSE Raise("LoadTimeout")
    /\ UNCHANGED <<environ, nowUtc, hostOffset, pageOpened, loginIdx, userFilledBy,
                   passFilledBy, filled, navClicks, ctxIdx, nctx, picked_ctx, steps,
                   executeClicks, polls, btn, downloads, saved, file_path, emails>>

\* try_click(locator): True when the click landed, False on any exception
try_click(landed) == landed

\* variant: the global "Reports" link is tried before the sidebar's href
NavOrder_globalFirst == <<"sidebar_reports", "sidebar_third", "global", "href", "text">>

\* lines 76-90: the click sites of click_reports_nav in the order of the code:
\* the sidebar's link named "Reports", the sidebar's third link whatever its
\* name, the sidebar's link to /app/reports, any link named "Reports", any
\* text containing "Reports"
NavOrder == <<"sidebar_reports", "sidebar_third", "href", "global", "text">>

\* lines 75-80: the two sidebar clicks are attempted when the sidebar shows up
\* in its 8 s and count() finds the link; the other three always are
NavOffered(o) ==
    {"href", "global", "text"}
    \cup (IF o.sidebar = "visible" /\ o.reports # "absent" THEN {"sidebar_reports"} ELSE {})
    \cup (IF o.sidebar = "visible" /\ o.third # "absent" THEN {"sidebar_third"} ELSE {})

\* whether the click at site k lands: try_click for the first four, a bare
\* click that raises for the last
NavLands(o, k) ==
    CASE k = "sidebar_reports" -> try_click(o.reports = "lands")
      [] k = "sidebar_third" -> try_click(o.third = "lands")
      [] k = "href" -> try_click(o.hrefClick)
      [] k = "global" -> try_click(o.globalClick)
      [] OTHER -> o.textClick

RECURSIVE NavChain(_, _, _)
\* lines 71-90 from the i-th click site on, `tried` being the clicks attempted
NavChain(i, o, tried) ==
    IF i > Len(NavOrder) THEN [site |-> "none", tried |-> tried]
    ELSE LET k == NavOrder[i] IN
         IF k \notin NavOffered(o) THEN NavChain(i + 1, o, tried)
         ELSE IF NavLands(o, k) THEN [site |-> k, tried |-> Append(tried, k)]
         ELSE NavChain(i + 1, o, Append(tried, k))

\* lines 71-90: the click site click_reports_nav ends at ("none" when the last
\* resort raised) and the clicks it attempted.  o: whether the sidebar shows
\* up, whether it has a "Reports" link and a third link and whether a click on
\* them lands, whether the other three clicks land
click_reports_nav(o) == NavChain(1, o, <<>>)

\* a sidebar that does not show up has no links to count
NavOutcomes ==
    {o \in [sidebar : {"visible", "timeout"}, reports : {"absent", "lands", "misses"},
            third : {"absent", "lands", "misses"},
            hrefClick : BOOLEAN, globalClick : BOOLEAN, textClick : BOOLEAN] :
        o.sidebar = "timeout" => o.reports = "absent" /\ o.third = "absent"}

\* page.frames holds the main frame and every child frame
ContextCounts == 2 .. (2 + MaxFrames)

\* lines 338-343: click_reports_nav(page), wait for the network to idle, then
\* build contexts(page) = [page, main frame, child frames...]; the login form
\* and the loop over its strategies are behind
Nav ==
    /\ pc = "nav"
    /\ steps' = Started(Navigate)
    /\ loginIdx' = 0
    /\ userFilledBy' = 0
    /\ passFilledBy' = 0
    /\ \E o \in NavOutcomes, load \in {"ok", "timeout"}, n \in ContextCounts :
         LET r == click_reports_nav(o)
             site == r.site IN
         /\ navClicks' = IF site = "none" THEN navClicks ELSE navClicks + 1
         /\ trace' = Rec("nav", 0, r.tried, IF site = "none" THEN "error" ELSE load, "",
                         NavOffered(o))
         /\ IF site = "none"
            THEN Raise("ClickError") /\ UNCHANGED nctx
            ELSE IF load = "timeout"
            THEN Raise("LoadTimeout") /\ UNCHANGED nctx
            ELSE /\ pc' = "select"
                 /\ nctx' = n
                 /\ UNCHANGED <<exitCode, error, session>>
    /\ UNCHANGED <<environ, nowUtc, hostOffset, pageOpened, filled, submitClicks, ctxIdx,
                   picked_ctx, executeClicks, polls, btn, downloads, saved, file_path,
                   emails>>

-----------------------------------------------------------------------------
(* select_report                                                           *)

\* line 120: the number of panel selectors searched for the option
NPanels == 10

RECURSIVE FirstTrue(_, _)
\* the first index >= k at which the sequence holds TRUE, 0 when there is none
FirstTrue(q, k) ==
    IF k > Len(q) THEN 0 ELSE IF q[k] THEN k ELSE FirstTrue(q, k + 1)

\* lines 132-142: the panel whose option click lands first; a panel that is
\* absent (`continue`) or whose click throws (`except: continue`) is passed over
PanelHit(panels) == FirstTrue([k \in 1..Len(panels) |-> panels[k] = "ok"], 1)

\* what strategy k of select_report does given the page's answers o:
\* "ok" (returns True), "fail" (falls through), "throw" (its body raised)
SelectStrategy(k, o) ==
    CASE k = 1 -> IF o.native = "absent" THEN "fail" ELSE o.native
      [] k = 2 -> IF (try_click(o.box) \/ try_click(o.combo)) /\ PanelHit(o.panels) > 0
                  THEN "ok" ELSE "fail"
      [] k = 3 -> IF o.typeahead = "absent" THEN "fail" ELSE o.typeahead
      [] OTHER -> o.text

\* variant: the type-ahead strategy sits outside any handler
SelectCatches_notTypeahead(k) == k \in {1, 2, 4}

\* lines 105, 113, 141, 155, 163: every strategy sits in `try ... except Exception`
SelectCatches(k) == k \in 1..4

RECURSIVE SelectChain(_, _, _)
\* lines 93-164 from strategy k on, `tried` being the strategies already run
SelectChain(k, o, tried) ==
    IF k > 4 THEN [ok |-> FALSE, raised |-> FALSE, tried |-> tried]
    ELSE LET r == SelectStrategy(k, o) IN
         IF r = "ok" THEN [ok |-> TRUE, raised |-> FALSE, tried |-> Append(tried, k)]
         ELSE IF r = "throw" /\ ~SelectCatches(k)
         THEN [ok |-> FALSE, raised |-> TRUE, tried |-> Append(tried, k)]
         ELSE SelectChain(k + 1, o, Append(tried, k))

select_report(o) == SelectChain(1, o, <<>>)

\* panel answers: before `hit` the panels are absent or throw in turn, from
\* `hit` on the option click lands
PanelAnswers ==
    {[k \in 1..NPanels |-> IF hit > 0 /\ k >= hit THEN "ok"
                           ELSE IF k % 2 = 1 THEN "absent" ELSE "throw"] :
        hit \in {0, 1, 2, NPanels}}

SelectOutcomes ==
    [native : {"absent", "ok", "throw"}, box : BOOLEAN, combo : BOOLEAN,
     panels : PanelAnswers, typeahead : {"absent", "ok", "throw"},
     text : {"ok", "throw"}]

\* what the page offered to a select_report call: the strategies that would
\* select the report and those whose body throws
Offered(o) ==
    [works |-> {k \in 1..4 : SelectStrategy(k, o) = "ok"},
     throws |-> {k \in 1..4 : SelectStrategy(k, o) = "throw"}]

\* line 344: ok = await select_report(ctx, REPORT_TITLE) for the context in turn
SelectReport ==
    /\ pc = "select"
    /\ ctxIdx <= nctx
    /\ steps' = Started(SelectStep)
    /\ \E o \in SelectOutcomes :
         LET r == select_report(o) IN
         /\ trace' = Rec("select", ctxIdx, r.tried,
                         IF r.raised THEN "raised" ELSE IF r.ok THEN "ok" ELSE "fail",
                         "", Offered(o))
         /\ IF r.raised
            THEN Raise("SelectError")
            ELSE /\ pc' = "pick"
                 /\ UNCHANGED <<exitCode, error, session>>
    /\ UNCHANGED <<environ, nowUtc, hostOffset, pageOpened, loginIdx, userFilledBy,
                   passFilledBy, filled, submitClicks, navClicks, ctxIdx, nctx, picked_ctx,
                   executeClicks, polls, btn, downloads, saved, file_path, emails>>

\* variant: the check after the loop is missing
NotPicked_never(p) == FALSE

\* line 348: `if not picked_ctx`
NotPicked(p) == p = 0

\* variant: the loop passes over every other context
NextContext_skip(i) == i + 2

\* line 343: `for ctx in contexts(page)` moves on to the following context
NextContext(i) == i + 1

\* lines 345-350: keep the context and leave the loop when select_report said
\* True, go on to the next context otherwise; after the last one, raise unless
\* a context was picked
Pick ==
    /\ pc = "pick"
    /\ trace' = Rec("pick", ctxIdx, <<>>, trace.result, "", "")
    /\ IF trace.result = "ok"
       THEN /\ picked_ctx' = ctxIdx
            /\ pc' = "date"
            /\ UNCHANGED <<ctxIdx, exitCode, error, session>>
       ELSE IF ctxIdx < nctx
       THEN /\ ctxIdx' = NextContext(ctxIdx)
            /\ pc' = "select"
            /\ UNCHANGED <<picked_ctx, exitCode, error, session>>
       ELSE IF NotPicked(picked_ctx)
       THEN Raise("ReportNotSelectable") /\ UNCHANGED <<picked_ctx, ctxIdx>>
       ELSE /\ pc' = "date"
            /\ UNCHANGED <<picked_ctx, ctxIdx, exitCode, error, session>>
    /\ UNCHANGED <<environ, nowUtc, hostOffset, pageOpened, loginIdx, userFilledBy,
                   passFilledBy, filled, submitClicks, navClicks, nctx, steps,
                   executeClicks, polls, btn, downloads, saved, file_path, emails>>

-----------------------------------------------------------------------------
(* set_as_on_date                                                          *)

\* lines 221-226 and 234-239: the toggles and the aria-labels tried in turn
NToggles == 4
NLabels == 4

\* variant: the day-cell click of line 251 sits outside any handler
DateCatches_noCell(name) == name \in {"input", "label"}

\* lines 217, 245, 254: the handlers around the labelled input, each day-label
\* click and the day-cell click (those of lines 197, 206, 214 sit inside the
\* first one, which would catch what they let through)
DateCatches(name) == name \in {"input", "label", "cell"}

\* lines 181-257.  o: whether the labelled input shows up, which of the three
\* ways to write into it (typing, fill, JS setter) work, which toggle click lands,
\* which day-label click lands, what the generic day cell does.  Result: the
\* strategies run, the one that set the date ("none": the warning of line 257),
\* whether anything escaped
set_as_on_date(o) ==
    LET viaInput ==
            IF ~o.input THEN [via |-> "none", tried |-> <<"input">>]
            ELSE IF o.writes[1] THEN [via |-> "typed", tried |-> <<"input", "typed">>]
            ELSE IF o.writes[2] THEN [via |-> "fill", tried |-> <<"input", "typed", "fill">>]
            ELSE IF o.writes[3]
            THEN [via |-> "js", tried |-> <<"input", "typed", "fill", "js">>]
            ELSE [via |-> "none", tried |-> <<"input", "typed", "fill", "js">>]
        escapedInput == ~o.input /\ ~DateCatches("input")
        opened == FirstTrue([k \in 1..NToggles |-> try_click(o.toggles[k])], 1) > 0
        label == FirstTrue(o.labels, 1)
        viaPicker ==
            IF ~opened THEN [via |-> "none", tried |-> <<"toggle">>]
            ELSE IF label > 0 THEN [via |-> "label", tried |-> <<"toggle", "label">>]
            ELSE IF o.cell = "ok" THEN [via |-> "cell", tried |-> <<"toggle", "label", "cell">>]
            ELSE [via |-> "none", tried |-> <<"toggle", "label", "cell">>]
        escapedPicker ==
            \/ opened /\ label # 1 /\ ~DateCatches("label")
            \/ opened /\ label = 0 /\ o.cell = "throw" /\ ~DateCatches("cell")
    IN  IF viaInput.via # "none"
        THEN [via |-> viaInput.via, tried |-> viaInput.tried, raised |-> FALSE, warned |-> FALSE]
        ELSE IF escapedInput
        THEN [via |-> "none", tried |-> viaInput.tried, raised |-> TRUE, warned |-> FALSE]
        ELSE IF escapedPicker
        THEN [via |-> "none", tried |-> viaInput.tried \o viaPicker.tried,
              raised |-> TRUE, warned |-> FALSE]
        ELSE IF viaPicker.via # "none"
        THEN [via |-> viaPicker.via, tried |-> viaInput.tried \o viaPicker.tried,
              raised |-> FALSE, warned |-> FALSE]
        ELSE [via |-> "none", tried |-> viaInput.tried \o viaPicker.tried,
              raised |-> FALSE, warned |-> TRUE]

\* answers of a chain of n clicks: none lands before `hit`, all from `hit` on do
ClickAnswers(n) == {[k \in 1..n |-> hit > 0 /\ k >= hit] : hit \in 0..n}

DateOutcomes ==
    [input : BOOLEAN, writes : ClickAnswers(3), toggles : ClickAnswers(NToggles),
     labels : ClickAnswers(NLabels), cell : {"absent", "ok", "throw"}]

\* whether the page lets no strategy set the date: no labelled input that takes
\* a value, and no date picker that opens and has the day to click
NothingSetsDate(o) ==
    /\ ~(o.input /\ \E k \in 1..3 : o.writes[k])
    /\ ~((\E k \in 1..NToggles : o.toggles[k])
         /\ ((\E k \in 1..NLabels : o.labels[k]) \/ o.cell = "ok"))

\* line 353: set_as_on_date(picked_ctx, YESTERDAY)
SetDate ==
    /\ pc = "date"
    /\ steps' = Started(DateStep)
    /\ \E o \in DateOutcomes :
         LET r == set_as_on_date(o) IN
         /\ trace' = Rec("date", picked_ctx, r.tried,
                         IF r.raised THEN "raised" ELSE IF r.warned THEN "warned" ELSE r.via,
                         YESTERDAY, IF NothingSetsDate(o) THEN "nothing" ELSE "something")
         /\ IF r.raised
            THEN Raise("DateError")
            ELSE /\ pc' = "execute"
                 /\ UNCHANGED <<exitCode, error, session>>
    /\ UNCHANGED <<environ, nowUtc, hostOffset, pageOpened, loginIdx, userFilledBy,
                   passFilledBy, filled, submitClicks, navClicks, ctxIdx, nctx, picked_ctx,
                   executeClicks, polls, btn, downloads, saved, file_path, emails>>

-----------------------------------------------------------------------------
(* click_execute, find_download_button and the rest of the run             *)

\* the labels the spec expects a trigger button to carry
TriggerLabels == {"Execute", "Run", "Generate", "Submit", "View Report"}

\* lines 261 and 270: both locators look for the word "execute" only
MatchesExecute(label) == label = "Execute"

\* lines 259-274.  o: the labels of the clickable buttons of the context and
\* whether a click on a matched one lands.  Result: "role", "text" or "none"
click_execute(o) ==
    LET matched == \E l \in o.labels : MatchesExecute(l) IN
    IF matched /\ o.roleClick THEN "role"
    ELSE IF matched /\ try_click(o.textClick) THEN "text"
    ELSE "none"

ExecuteOutcomes ==
    [labels : {{}} \cup {{l} : l \in TriggerLabels} \cup {{"Run", "Execute"}},
     roleClick : BOOLEAN, textClick : BOOLEAN]

\* line 356: click_execute(picked_ctx)
Execute ==
    /\ pc = "execute"
    /\ steps' = Started(ExecuteStep)
    /\ \E o \in ExecuteOutcomes :
         LET how == click_execute(o) IN
         /\ trace' = Rec("execute", picked_ctx, <<>>, how, "",
                         [labels |-> o.labels, lands |-> o.roleClick \/ o.textClick])
         /\ executeClicks' = IF how = "none" THEN executeClicks ELSE executeClicks + 1
         /\ IF how = "none"
            THEN Raise("ExecuteNotClickable")
            ELSE /\ pc' = "poll"
                 /\ UNCHANGED <<exitCode, error, session>>
    /\ UNCHANGED <<environ, nowUtc, hostOffset, pageOpened, loginIdx, userFilledBy,
                   passFilledBy, filled, submitClicks, navClicks, ctxIdx, nctx, picked_ctx,
                   polls, btn, downloads, saved, file_path, emails>>

\* line 278: the number of candidate locators; the last one is context-wide
NCandidates == 5

\* line 360: range(180)
PollBudget == 180

RECURSIVE ScanCandidates(_, _)
ScanCandidates(k, visible) ==
    IF k > NCandidates THEN 0
    ELSE IF k \in visible THEN k ELSE ScanCandidates(k + 1, visible)

\* lines 276-291: the first candidate that becomes visible in its 500 ms, 0 = None
find_download_button(visible) == ScanCandidates(1, visible)

\* the candidates a poll can find visible: none, one alone, or one and all later
VisibleChoices ==
    {{}} \cup {{k} : k \in 1..NCandidates} \cup {k..NCandidates : k \in 1..NCandidates}

\* line 283: the fifth candidate is looked up in the whole context, so its
\* first match sits in the report's row or anywhere else in the context (a
\* poll records where when that candidate is the one it returns)
DocumentButtonSites == {"row", "elsewhere"}

\* lines 277-284: whether candidate k, the context-wide one found at `site`,
\* lies inside the row that holds the report's title
InTitleRow(k, site) == k \in 1..(NCandidates - 1) \/ (k = NCandidates /\ site = "row")

\* variant: the loop bound is off by one
PollAgain_offByOne(done) == done <= PollBudget

\* line 360: whether the loop goes round again after `done` fruitless attempts
PollAgain(done) == done < PollBudget

\* lines 360-367: one iteration of the polling loop; a fruitless last
\* iteration runs into the raise of line 367.  The counter is the loop's own
PollOnce ==
    /\ pc = "poll"
    /\ steps' = Started(PollStep)
    /\ \E visible \in VisibleChoices,
          site \in DocumentButtonSites \cup {"none"} :
         LET found == find_download_button(visible)
             seen == [visible |-> visible, site |-> site] IN
         /\ site = "none" <=> found # NCandidates
         /\ btn' = found
         /\ IF found # 0
            THEN /\ polls' = 0
                 /\ trace' = Rec("poll", picked_ctx, <<>>, "found", "", seen)
                 /\ pc' = "download"
                 /\ UNCHANGED <<exitCode, error, session>>
            ELSE IF PollAgain(polls + 1)
            THEN /\ polls' = polls + 1
                 /\ trace' = Rec("poll", picked_ctx, <<>>, "waiting", "", seen)
                 /\ UNCHANGED <<pc, exitCode, error, session>>
            ELSE /\ polls' = polls + 1
                 /\ trace' = Rec("poll", picked_ctx, <<>>, "exhausted", "", seen)
                 /\ Raise("DownloadNeverReady")
    /\ UNCHANGED <<environ, nowUtc, hostOffset, pageOpened, loginIdx, userFilledBy,
                   passFilledBy, filled, submitClicks, navClicks, ctxIdx, nctx, picked_ctx,
                   executeClicks, downloads, saved, file_path, emails>>

\* variant: the suggested filename is ignored
SavedName_alwaysDefault(suggested) == DEFAULT_FILENAME

\* line 372: download.suggested_filename or DEFAULT_FILENAME
SavedName(suggested) == IF suggested.stem = "" THEN DEFAULT_FILENAME ELSE suggested

\* lines 369-378: click the button the poll returned inside expect_download,
\* save the download under the output directory, close the context and the
\* browser
Download ==
    /\ pc = "download"
    /\ steps' = Started(DownloadStep)
    /\ \E click \in {"ok", "error"}, event \in {"ok", "timeout"},
          suggested \in SuggestedNames, save \in {"ok", "error"},
          close \in {"ok", "error"} :
         IF click = "error"
         THEN /\ Raise("ClickError")
              /\ trace' = Rec("download", picked_ctx, <<btn>>, "click_error", trace.env.site, "")
              /\ UNCHANGED <<downloads, saved, file_path>>
         ELSE IF event = "timeout"
         THEN /\ Raise("DownloadTimeout")
              /\ trace' = Rec("download", picked_ctx, <<btn>>, "no_download", trace.env.site, "")
              /\ UNCHANGED <<downloads, saved, file_path>>
         ELSE /\ downloads' = downloads + 1
              /\ file_path' = InDownloadDir(SavedName(suggested))
              /\ IF save = "error"
                 THEN /\ Raise("SaveError")
                      /\ trace' = Rec("download", picked_ctx, <<btn>>, "save_error",
                                      trace.env.site, suggested)
                      /\ UNCHANGED saved
                 ELSE /\ saved' = Append(saved, file_path')
                      /\ IF close = "error"
                         THEN /\ Raise("CloseError")
                              /\ trace' = Rec("download", picked_ctx, <<btn>>, "close_error",
                                              trace.env.site, suggested)
                         ELSE /\ trace' = Rec("download", picked_ctx, <<btn>>, "saved",
                                              trace.env.site, suggested)
                              /\ session' = "closed"
                              /\ pc' = "notify"
                              /\ UNCHANGED <<exitCode, error>>
    /\ UNCHANGED <<environ, nowUtc, hostOffset, pageOpened, loginIdx, userFilledBy,
                   passFilledBy, filled, submitClicks, navClicks, ctxIdx, nctx, picked_ctx,
                   executeClicks, polls, btn, emails>>

\* variant: the loop over `paths` attaches nothing
Message_noAttachment(paths) ==
    [from |-> FROM_EMAIL, to |-> TO_EMAIL, subjectDate |-> YESTERDAY,
     attachments |-> <<>>, server |-> SMTP_SERVER, port |-> SMTP_PORT]

\* lines 386-403: the message email_files builds from `paths`
Message(paths) ==
    [from |-> FROM_EMAIL, to |-> TO_EMAIL, subjectDate |-> YESTERDAY,
     attachments |-> paths, server |-> SMTP_SERVER, port |-> SMTP_PORT]

\* lines 380-383 and 386-404: send the file when the configuration is complete
\* (an SMTP failure propagates), skip otherwise; then the process ends
Notify ==
    /\ pc = "notify"
    /\ steps' = Started(NotifyStep)
    /\ \E smtp \in {"ok", "error"} :
         IF email_config_ok
         THEN IF smtp = "ok"
              THEN /\ emails' = Append(emails, Message(<<file_path>>))
                   /\ trace' = Rec("notify", 0, <<"send">>, "sent", "", "")
                   /\ pc' = "exited"
                   /\ exitCode' = 0
                   /\ UNCHANGED <<error, session>>
              ELSE /\ Raise("SMTPError")
                   /\ trace' = Rec("notify", 0, <<"send">>, "smtp_error", "", "")
                   /\ UNCHANGED emails
         ELSE /\ trace' = Rec("notify", 0, <<>>, "skipped", "", "")
              /\ pc' = "exited"
              /\ exitCode' = 0
              /\ UNCHANGED <<emails, error, session>>
    /\ UNCHANGED <<environ, nowUtc, hostOffset, pageOpened, loginIdx, userFilledBy,
                   passFilledBy, filled, submitClicks, navClicks, ctxIdx, nctx, picked_ctx,
                   executeClicks, polls, btn, downloads, saved, file_path>>

Next ==
    \/ ModuleLoad
    \/ Preflight
    \/ Goto
    \/ LoginSelector
    \/ LoginPlaceholder
    \/ LoginSubmit
    \/ Nav
    \/ SelectReport
    \/ Pick
    \/ SetDate
    \/ Execute
    \/ PollOnce
    \/ Download
    \/ Notify

Spec == Init /\ [][Next]_vars

\* the same run, started at instants around date changes and under several
\* host timezones
SpecClock == InitClock /\ [][Next]_vars

TypeOK ==
    /\ pc \in {"import", "start", "goto", "login", "nav", "select", "pick", "date",
               "execute", "poll", "download", "notify", "exited"}
    /\ exitCode \in {-1, 0, 1}
    /\ session \in {"none", "open", "closed"}
    /\ polls \in 0..PollBudget
    /\ btn \in 0..NCandidates
    /\ picked_ctx \in 0..(2 + MaxFrames)

-----------------------------------------------------------------------------
(* Properties                                                              *)

\* an environment value that is absent or the empty string
Empty(raw) == raw = UNSET \/ raw = <<>>

\* an environment value with at least one character that is not a blank
NonBlank(raw) == raw # UNSET /\ \E k \in 1..Len(raw) : raw[k] # " "

\* an environment value that spells "true" in any case, blanks around it allowed
SpellsTrue(raw) ==
    /\ raw # UNSET
    /\ \E a \in 0..Len(raw) :
         /\ Len(raw) >= a + 4
         /\ \A k \in 1..a : raw[k] = " "
         /\ \A k \in (a + 5)..Len(raw) : raw[k] = " "
         /\ raw[a + 1] \in {"t", "T"} /\ raw[a + 2] \in {"r", "R"}
         /\ raw[a + 3] \in {"u", "U"} /\ raw[a + 4] \in {"e", "E"}

\* C1: whenever WEBSITE_USER or WEBSITE_PASS is empty the process ends with a
\* non-zero status without ever launching the browser: no session, no login
\* page, no step started, nothing downloaded, saved or mailed.
C1_FailFastOnMissingCredentials ==
    (Empty(environ["WEBSITE_USER"]) \/ Empty(environ["WEBSITE_PASS"])) =>
        /\ pc \in {"import", "start", "exited"}
        /\ session = "none"
        /\ ~pageOpened
        /\ steps = <<>>
        /\ downloads = 0 /\ saved = <<>> /\ emails = <<>>
        /\ pc = "exited" => exitCode = 1 /\ error \in {"MissingCredentials", "ValueError"}

C1_Witness ==
    /\ pc = "exited"
    /\ error = "MissingCredentials"
    /\ environ["WEBSITE_USER"] # <<>>
    /\ environ["WEBSITE_PASS"] = UNSET

SixSmtpFields == SmtpTextFields \cup {"SMTP_PORT"}

\* a finished run that has downloaded the artifact: the download step is
\* complete (file saved, session closed) and the notification step was entered
DownloadedRun == pc = "exited" /\ Len(saved) = 1 /\ Len(steps) = 8

\* C2 as stated: in a finished run that saved the artifact, an email was sent
\* if and only if the enable flag is true and each of the six SMTP variables
\* is non-empty in the environment.
C2_SentIffSixFieldsSet ==
    DownloadedRun =>
        (Len(emails) = 1 <=>
            /\ SpellsTrue(environ["ENABLE_EMAIL"])
            /\ \A n \in SixSmtpFields : ~Empty(environ[n]))

\* C2 amended: in a finished run that saved the artifact, the send is attempted
\* if and only if the enable flag spells true and each of the five text fields
\* FROM_EMAIL, TO_EMAIL, SMTP_SERVER, SMTP_USER, SMTP_PASS holds more than
\* blanks; SMTP_PORT plays no part (blank, it is 587).  An attempt ends in one
\* email or in an SMTP error; without an attempt there is no email and no
\* error.  The artifact stays saved either way.
C2_SendAttemptedIffFiveFieldsNonBlank ==
    DownloadedRun =>
        LET complete == /\ SpellsTrue(environ["ENABLE_EMAIL"])
                        /\ \A n \in SmtpTextFields : NonBlank(environ[n])
        IN  /\ complete => (Len(emails) = 1 /\ error = "none") \/
                           (emails = <<>> /\ error = "SMTPError")
            /\ ~complete => emails = <<>> /\ error = "none"
            /\ saved = <<file_path>>

C2_Witness ==
    /\ pc = "exited"
    /\ Len(saved) = 1
    /\ Len(emails) = 1
    /\ environ["SMTP_PORT"] = <<" ">>

\* C3: the polling loop makes at most 180 attempts; after the 180th fruitless
\* attempt the run is over with the download-never-ready error, and such a run
\* has found no button, started no download, saved no file and sent no email.
C3_PollBudgetThenTimeout ==
    /\ polls <= 180
    /\ pc = "poll" => polls < 180
    /\ polls = 180 => pc = "exited" /\ error = "DownloadNeverReady"
    /\ error = "DownloadNeverReady" =>
          /\ polls = 180 /\ btn = 0
          /\ pc = "exited" /\ exitCode = 1
          /\ downloads = 0 /\ saved = <<>> /\ file_path = NoPath /\ emails = <<>>

C3_Witness ==
    /\ error = "DownloadNeverReady"
    /\ polls = 180
    /\ trace.result = "exhausted"

\* C4: the steps start in the order 1..8, each only once the one before it has
\* done its work (login submitted, Reports clicked, a context picked, the date
\* step run, Execute clicked, a download button found, the file saved); a step
\* that has not started has done nothing; any error ends the process with a
\* non-zero status.
C4_LinearAndFatal ==
    LET n == Len(steps) IN
    /\ \A k \in 1..n : steps[k] = k
    /\ n >= 2 => submitClicks = 1
    /\ n >= 3 => navClicks = 1
    /\ n >= 4 => picked_ctx # 0
    /\ n >= 6 => executeClicks = 1
    /\ n >= 7 => btn # 0
    /\ n >= 8 => downloads = 1 /\ Len(saved) = 1
    /\ n < 2 => navClicks = 0
    /\ n < 3 => picked_ctx = 0 /\ ctxIdx = 1
    /\ n < 5 => executeClicks = 0
    /\ n < 6 => polls = 0 /\ btn = 0
    /\ n < 7 => downloads = 0 /\ saved = <<>>
    /\ n < 8 => emails = <<>>
    /\ error # "none" => pc = "exited" /\ exitCode = 1

C4_Witness ==
    /\ error = "ExecuteNotClickable"
    /\ exitCode = 1
    /\ steps = <<1, 2, 3, 4, 5>>

\* C5: a finished run has a non-zero status exactly when an error ended it, and
\* every finished run that saved the artifact has status zero, whatever the
\* notification step did.
C5_SavedRunExitsZero ==
    /\ pc = "exited" => (exitCode # 0 <=> error # "none")
    /\ DownloadedRun => exitCode = 0

\* C6: the set-date step never raises: whatever the page offers, the step
\* returns and the run stands before the Execute step, and the warning is
\* logged exactly when the page let no strategy set the date.
C6_DateStepNonFatal ==
    /\ error # "DateError"
    /\ trace.step = "date" =>
          /\ trace.result # "raised"
          /\ pc = "execute" /\ exitCode = -1 /\ error = "none"
          /\ trace.result = "warned" <=> trace.env = "nothing"

C6_Witness ==
    /\ trace.step = "date"
    /\ trace.result = "warned"
    /\ trace.tried = <<"input", "typed", "fill", "js", "toggle", "label", "cell">>
    /\ pc = "execute"

\* every portal step of a finished run succeeded: it got as far as the
\* notification step, the file saved
PortalStepsSucceeded == pc = "exited" /\ Len(steps) = 8 /\ Len(saved) = 1

FullyConfigured ==
    /\ SpellsTrue(environ["ENABLE_EMAIL"])
    /\ \A n \in SixSmtpFields : NonBlank(environ[n])

\* at most one file saved, at most one email, an email only behind the saved
\* file and carrying exactly that file
AtMostOneEach ==
    /\ Len(saved) <= 1
    /\ Len(emails) <= 1
    /\ emails # <<>> => Len(saved) = 1 /\ emails[1].attachments = <<saved[1]>>

C8_SelectChain ==
    /\ error # "SelectError"
    /\ trace.step = "select" =>
          LET n == Len(trace.tried)
              works == trace.env.works
              throws == trace.env.throws
          IN  /\ trace.result \in {"ok", "fail"}
              /\ n \in 1..4
              /\ \A k \in 1..n : trace.tried[k] = k
              /\ trace.result = "ok" <=> works # {}
              /\ works # {} => n \in works /\ \A k \in 1..(n - 1) : k \notin works
              /\ works = {} => n = 4
              /\ \A k \in throws : (k < 4 /\ k <= n) => n >= k + 1

C8_Witness ==
    /\ trace.step = "select"
    /\ trace.result = "ok"
    /\ trace.tried = <<1, 2, 3, 4>>
    /\ trace.env.throws = {1, 3}

\* the submit happens only behind one strategy that filled both fields, and
\* the login-fields error comes before any submit, all four strategies run
SubmitOnlyWhenOneStrategyFilledBoth ==
    /\ (trace.step = "submit" /\ submitClicks > 0) =>
          /\ userFilledBy = passFilledBy
          /\ userFilledBy \in 1..(LoginSelectors + 1)
    /\ submitClicks > 0 => filled
    /\ error = "LoginFieldsNotFound" =>
          /\ submitClicks = 0 /\ ~filled
          /\ trace.step = "login" /\ trace.tried = <<1, 2, 3, 4>>

\* C9 as stated: the submit happens only behind one strategy that filled both
\* fields; without such a strategy the run ends with the login-fields error
\* before any submit; and a strategy that fails is always followed by the next
\* one (by the login-fields error after the last), the chain is never aborted.
C9_FailureAlwaysTriesNext ==
    /\ SubmitOnlyWhenOneStrategyFilledBoth
    /\ (trace.step = "login" /\ trace.result # "ok") =>
          LET k == trace.tried[Len(trace.tried)] IN
          /\ loginIdx = k + 1
          /\ pc = "login" \/ (k = LoginSelectors + 1 /\ error = "LoginFieldsNotFound")

\* C9 amended: the submit happens only behind one strategy that filled both
\* fields; when every strategy times out the run ends with the login-fields
\* error before any submit; a strategy that fails with a timeout is always
\* followed by the next one, while a strategy that fails with any other error
\* aborts the chain and the run with that error, again before any submit.
C9_TimeoutTriesNextOtherErrorAborts ==
    /\ SubmitOnlyWhenOneStrategyFilledBoth
    /\ (trace.step = "login" /\ trace.result \in {"user_timeout", "pass_timeout"}) =>
          LET k == trace.tried[Len(trace.tried)] IN
          /\ loginIdx = k + 1
          /\ pc = "login" \/ (k = LoginSelectors + 1 /\ error = "LoginFieldsNotFound")
    /\ (trace.step = "login" /\ trace.result \in {"user_error", "pass_error"}) =>
          /\ pc = "exited" /\ error = "FillError" /\ exitCode = 1
          /\ submitClicks = 0
    /\ error = "FillError" => trace.step = "login" /\ submitClicks = 0

C9_Witness ==
    /\ error = "FillError"
    /\ trace.tried = <<1, 2>>
    /\ trace.result = "pass_error"
    /\ submitClicks = 0

-----------------------------------------------------------------------------
(* The calendar, written down independently of date arithmetic             *)

LeapYear(y) == (y % 4 = 0 /\ y % 100 # 0) \/ y % 400 = 0

MonthLength(y, m) ==
    IF m = 2 THEN (IF LeapYear(y) THEN 29 ELSE 28)
    ELSE IF m \in {4, 6, 9, 11} THEN 30 ELSE 31

YearLength(y) == IF LeapYear(y) THEN 366 ELSE 365

RECURSIVE WalkMonths(_, _, _)
WalkMonths(n, y, m) ==
    IF n >= MonthLength(y, m) THEN WalkMonths(n - MonthLength(y, m), y, m + 1)
    ELSE <<y, m, n + 1>>

RECURSIVE WalkYears(_, _)
WalkYears(n, y) ==
    IF n >= YearLength(y) THEN WalkYears(n - YearLength(y), y + 1) ELSE WalkMonths(n, y, 1)

\* the civil date n days after 1970-01-01
CivilOfEpochDay(n) == WalkYears(n, 1970)

\* the calendar day before a civil date
DayBefore(d) ==
    IF d[3] > 1 THEN <<d[1], d[2], d[3] - 1>>
    ELSE IF d[2] > 1 THEN <<d[1], d[2] - 1, MonthLength(d[1], d[2] - 1)>>
    ELSE <<d[1] - 1, 12, 31>>

\* the day before the date a UTC+5:30 clock shows at the instant of the run
ExpectedTarget == DayBefore(CivilOfEpochDay((nowUtc + 5 * 60 + 30) \div 1440))

\* C10: the target date - the one handed to the date filter, the one in the
\* default file name, the one in the email subject - is the calendar day before
\* the date a UTC+5:30 clock shows at the instant of the run, whatever the
\* host's own offset.
C10_TargetDateIsIstYesterday ==
    /\ YESTERDAY = ExpectedTarget
    /\ DEFAULT_FILENAME.date = ExpectedTarget
    /\ trace.step = "date" => trace.arg = ExpectedTarget
    /\ \A k \in 1..Len(saved) :
          saved[k].name.stem = "cash_flows_" => saved[k].name.date = ExpectedTarget
    /\ \A k \in 1..Len(emails) : emails[k].subjectDate = ExpectedTarget

\* the host's local date differs from the UTC+5:30 date, and the target date
\* lies across a leap day
C10_Witness ==
    /\ hostOffset = -720
    /\ DateAt(nowUtc, hostOffset) # TODAY
    /\ Len(emails) = 1
    /\ emails[1].subjectDate = <<2024, 2, 29>>
    /\ saved[1].name.date = <<2024, 2, 29>>

\* C11 as stated: the trigger step succeeds whenever the picked context has a
\* button that can be clicked and carries one of the labels Execute, Run,
\* Generate, Submit, View Report; it fails the run with the
\* execute-not-clickable error, polling never started, exactly when no button
\* with any of those labels can be clicked.
C11_AnyExpectedLabelTriggers ==
    trace.step = "execute" =>
        LET clickable == trace.env.lands /\ trace.env.labels \cap TriggerLabels # {}
        IN  /\ clickable => trace.result # "none" /\ pc = "poll" /\ executeClicks = 1
            /\ error = "ExecuteNotClickable" <=> ~clickable
            /\ error = "ExecuteNotClickable" => pc = "exited" /\ polls = 0 /\ btn = 0

\* C12 as stated: the download affordance a poll attempt returns, and so the
\* element the download step clicks, lies inside the table row that holds the
\* report's title; one outside that row is never returned, whatever else is
\* visible in the context.
C12_AffordanceInsideTitleRow ==
    /\ (trace.step = "poll" /\ trace.result = "found") => InTitleRow(btn, trace.env.site)
    /\ (trace.step = "download" /\ trace.result # "click_error") =>
           InTitleRow(trace.tried[1], trace.arg)

\* C13: the select step tries the contexts in the order of contexts(page), the
\* page first and then each frame, and stops at the first context in which
\* select_report succeeds; the date, execute and poll steps act on that picked
\* context; the run fails with the report-not-selectable error if and only if
\* select_report failed in every context.
C13_ContextsInOrderFirstSuccessKept ==
    /\ [](/\ (pc = "select" /\ trace.step = "nav") => ctxIdx = 1
          /\ pc \in {"select", "pick"} => ctxIdx \in 1..nctx /\ picked_ctx = 0
          /\ trace.step = "select" => trace.ctx = ctxIdx
          /\ picked_ctx # 0 => picked_ctx = ctxIdx
          /\ trace.step \in {"date", "execute", "poll"} =>
                 picked_ctx # 0 /\ trace.ctx = picked_ctx
          /\ error = "ReportNotSelectable" <=>
                 (trace.step = "pick" /\ trace.result = "fail" /\ trace.ctx = nctx
                  /\ pc = "exited"))
    /\ [][/\ ctxIdx' # ctxIdx =>
                 trace.step = "select" /\ trace.result = "fail" /\ ctxIdx' = ctxIdx + 1
          /\ picked_ctx' # picked_ctx =>
                 trace.step = "select" /\ trace.result = "ok" /\ picked_ctx' = ctxIdx
          /\ (trace.step = "select" /\ trace.result = "ok" /\ pc' # pc) =>
                 picked_ctx' = ctxIdx /\ ctxIdx' = ctxIdx /\ pc' = "date"]_vars

\* the page's own context failed, the following one was picked and polled
C13_Witness ==
    /\ picked_ctx = 2
    /\ trace.step = "poll"
    /\ trace.ctx = 2
    /\ error = "none"

\* the place of a click site in the chain the navigate step is described by
NavRank(k) ==
    CASE k = "sidebar_reports" -> 1
      [] k = "sidebar_third" -> 2
      [] k = "href" -> 3
      [] k = "global" -> 4
      [] k = "text" -> 5

\* the navigate step with `sites` the click sites it may end at: at most one
\* click lands per run; the clicks are attempted in the order of the chain,
\* none that the page offers passed over, and the one that lands ends the
\* chain at one of `sites`; the step raises only behind the failed last resort
NavigateClicksOneOf(sites) ==
    /\ navClicks <= 1
    /\ trace.step = "nav" =>
          LET t == trace.tried
              n == Len(t)
          IN  /\ n >= 1
              /\ \A i, j \in 1..n : i < j => NavRank(t[i]) < NavRank(t[j])
              /\ \A k \in trace.env : NavRank(k) < NavRank(t[n]) => \E i \in 1..n : t[i] = k
              /\ \A i \in 1..n : t[i] \in trace.env
              /\ trace.result # "error" => navClicks = 1 /\ t[n] \in sites
              /\ trace.result = "error" =>
                     /\ navClicks = 0 /\ error = "ClickError" /\ pc = "exited"
                     /\ t[n] = "text"
                     /\ \A k \in trace.env : \E i \in 1..n : t[i] = k

\* C14 as stated: the navigate step performs at most one successful click per
\* run; the element it clicks is always one matched as a "Reports" entry by a
\* strategy of the chain (container-scoped Reports link, scoped href pattern,
\* global Reports link, substring text match), tried in that order; the step
\* raises only when every strategy including the last resort has failed.
C14_ClicksOnlyReportsEntries ==
    NavigateClicksOneOf({"sidebar_reports", "href", "global", "text"})

\* C14 amended: as above, except that the element clicked is either one
\* matched as a "Reports" entry or, behind the container-scoped Reports link,
\* the third link of the sidebar container whatever its name.
C14_ClicksReportsEntryOrThirdSidebarLink ==
    /\ NavigateClicksOneOf({"sidebar_reports", "sidebar_third", "href", "global", "text"})
    /\ (trace.step = "nav" /\ trace.tried[Len(trace.tried)] = "sidebar_third") =>
           \A i \in 1..Len(trace.tried) : trace.tried[i] \in {"sidebar_reports", "sidebar_third"}

\* the sidebar's Reports link and third link missed, the href and the global
\* link too, and the last-resort text click landed
C14_Witness ==
    /\ trace.step = "nav"
    /\ trace.tried = <<"sidebar_reports", "sidebar_third", "href", "global", "text">>
    /\ trace.result = "ok"
    /\ navClicks = 1
    /\ pc = "select"

\* C15: in every run that created the browser session, whether it ends in
\* success or in a fatal failure at any step, the session is destroyed before
\* the process exits; and the notification step only ever runs after the
\* session has been destroyed.
C15_SessionDestroyedBeforeExitAndNotify ==
    /\ pageOpened => session # "none"
    /\ (pc = "exited" /\ session # "none") => session = "closed"
    /\ (pc = "notify" \/ emails # <<>> \/ (steps # <<>> /\ steps[Len(steps)] = NotifyStep))
          => session = "closed"
    /\ session = "open" => pc \notin {"import", "start", "notify", "exited"}

\* a run that failed in the polling loop, its session destroyed on the way out
C15_Witness ==
    /\ pc = "exited"
    /\ error = "DownloadNeverReady"
    /\ pageOpened
    /\ session = "closed"
    /\ polls = PollBudget

\* C16: the downloaded artifact is saved in the output directory under the
\* browser's suggested filename when that is non-empty, otherwise under the
\* default name cash_flows_<target date>.xlsx; and the path that is saved is
\* exactly the path later attached to the email.
C16_SavedUnderSuggestedElseDefaultAndAttached ==
    /\ (trace.step = "download" /\ trace.result \in {"saved", "close_error"}) =>
          /\ Len(saved) = 1
          /\ saved[1].dir = "downloads"
          /\ trace.env.stem # "" => saved[1].name = trace.env
          /\ trace.env.stem = "" =>
                 saved[1].name = [stem |-> "cash_flows_", date |-> YESTERDAY, ext |-> ".xlsx"]
    /\ saved # <<>> => saved = <<file_path>>
    /\ \A i \in 1..Len(emails) : emails[i].attachments = saved /\ Len(saved) = 1

\* the portal suggested no name: the file went out under the default name
C16_Witness ==
    /\ pc = "exited"
    /\ Len(emails) = 1
    /\ saved = <<file_path>>
    /\ emails[1].attachments = <<[dir |-> "downloads",
                                  name |-> [stem |-> "cash_flows_", date |-> YESTERDAY,
                                            ext |-> ".xlsx"]]>>

====
